---- MODULE Spec2Model ----
(***************************************************************************)
(* cfg-kit: the configuration resolution engine (ConfigBuilder,            *)
(* defineConfig, processEnvConfig, processConfigObject) as a state         *)
(* machine.  JavaScript objects are modelled as sequences of key/value     *)
(* entries, so that key order and the semantics of the spread operator     *)
(* are kept.                                                               *)
(***************************************************************************)
EXTENDS Integers, Sequences, FiniteSets, TLC

VARIABLES
    builder,        \* the ConfigBuilder at the end of the current chain
    chainLen,       \* number of builder steps taken so far
    singleton,      \* the exported configBuilder object
    rootConfig,     \* the root field declarations given to defineConfig
    buildMode,      \* process.env.CONFIG_AS_CODE_BUILD_MODE when defineConfig runs
    pc,             \* position of the configuration-build pass
    started,        \* number of plugins whose build() has been invoked
    inflight,       \* indices of plugins whose build() has not settled
    pluginConfigs,  \* fragments pushed so far
    merged,         \* mergedPluginConfig and fullConfig
    envResult,      \* result of processEnvConfig
    section,        \* section processConfigObject is working on
    fIdx,           \* index of the entry processConfigObject is at
    pending,        \* a resolver has been invoked and has not settled
    serverResult,   \* result object of the server section
    clientResult,   \* result object of the client section
    output,         \* what defineConfig returned
    error,          \* what the pass threw
    log,            \* observable events of the current pass, in order
    pass,           \* number of the current evaluation of the config module
    handed,         \* every (section, name, stableId) handed to a resolver
    envIn,          \* input of a stand-alone processEnvConfig call
    envOut,         \* its result
    prevOutcome,    \* what the previous pass returned or threw
    devPc,          \* position of devConfig
    isBuilding,     \* the flag of devConfig's change handler
    running,        \* number of buildConfig runs in flight
    devLog,         \* observable events of devConfig, in order
    buildPc         \* position of one buildConfig run

vars == << builder, chainLen, rootConfig, buildMode, pc, started, inflight,
           pluginConfigs, merged, envResult, section, fIdx, pending,
           serverResult, clientResult, output, error, log, pass, handed,
           envIn, envOut, prevOutcome, singleton, devPc, isBuilding, running,
           devLog, buildPc >>

passVars == << builder, chainLen, rootConfig, buildMode, pc, started, inflight,
               pluginConfigs, merged, envResult, section, fIdx, pending,
               serverResult, clientResult, output, error, log, pass, handed,
               prevOutcome, singleton >>

\* the variables of the cli: devConfig and buildConfig
devVars == << devPc, isBuilding, running, devLog, buildPc >>

(***************************************************************************)
(* Bounds of the model.                                                    *)
(***************************************************************************)
MaxPlugins == 2
MaxChain == 3
MaxPasses == 2
MaxChanges == 3

(***************************************************************************)
(* JavaScript values.                                                      *)
(***************************************************************************)
Undefined == "<undefined>"

StartsWith(s, p) == Len(s) >= Len(p) /\ SubSeq(s, 1, Len(p)) = p

IsNumber(v) == StartsWith(v, "#")

IsUrl(v) == StartsWith(v, "http://")

(***************************************************************************)
(* Objects: sequences of entries [k, v] with distinct keys, in insertion   *)
(* order.                                                                  *)
(***************************************************************************)
EmptyObj == << >>

Entry(k, v) == [k |-> k, v |-> v]

Keys(o) == [i \in 1..Len(o) |-> o[i].k]

KeySet(o) == {o[i].k : i \in 1..Len(o)}

Has(o, k) == k \in KeySet(o)

IndexOf(o, k) == CHOOSE i \in 1..Len(o) : o[i].k = k

Get(o, k) == o[IndexOf(o, k)].v

Put(o, k, v) ==
    IF Has(o, k) THEN [o EXCEPT ![IndexOf(o, k)] = Entry(k, v)]
    ELSE Append(o, Entry(k, v))

RECURSIVE Spread(_, _)
Spread(a, b) ==
    IF Len(b) = 0 THEN a
    ELSE Spread(Put(a, Head(b).k, Head(b).v), Tail(b))

RECURSIVE Concat(_)
Concat(ss) == IF Len(ss) = 0 THEN << >> ELSE Head(ss) \o Concat(Tail(ss))

(***************************************************************************)
(* Validation rules (zod types) as the engine uses them: parse returns the *)
(* normalized value or the list of issues.                                 *)
(***************************************************************************)
Rule(owner, kind) == [owner |-> owner, kind |-> kind]

RuleKinds == {"string", "min1", "url", "min1url", "default", "optional"}

DefaultValue == "dflt"

StringIssues(kind, v) ==
    IF v = Undefined THEN << "Required" >>
    ELSE IF IsNumber(v) THEN << "Expected string, received number" >>
    ELSE (IF kind \in {"min1", "min1url"} /\ v = ""
             THEN << "String must contain at least 1 character(s)" >>
             ELSE << >>)
         \o
         (IF kind \in {"url", "min1url"} /\ ~IsUrl(v)
             THEN << "Invalid url" >>
             ELSE << >>)

ParseRule(rule, v) ==
    IF rule.kind = "default" /\ v = Undefined
        THEN [ok |-> TRUE, value |-> DefaultValue, issues |-> << >>]
    ELSE IF rule.kind = "optional" /\ v = Undefined
        THEN [ok |-> TRUE, value |-> Undefined, issues |-> << >>]
    ELSE LET is == StringIssues(rule.kind, v)
         IN  [ok |-> Len(is) = 0, value |-> v, issues |-> is]

\* z.object(shape).parse(values): every key is parsed, every issue is kept.
ParseObject(shape, values) ==
    LET res == [i \in 1..Len(shape) |-> ParseRule(shape[i].v, values[shape[i].k])]
        iss == [i \in 1..Len(shape) |->
                   [j \in 1..Len(res[i].issues) |->
                       [path |-> shape[i].k, message |-> res[i].issues[j]]]]
        all == Concat(iss)
    IN  [ok |-> Len(all) = 0,
         value |-> [i \in 1..Len(shape) |-> Entry(shape[i].k, res[i].value)],
         issues |-> all]

(***************************************************************************)
(* Errors.                                                                 *)
(***************************************************************************)
Err(kind, subject, lines) == [kind |-> kind, subject |-> subject, lines |-> lines]

NoError == Err("none", "", << >>)

ServerEnvTag == "Server environment validation failed:"

ClientEnvTag == "Client environment validation failed:"

\* error.errors.map(err => `${path}: ${err.message}`)
ErrorMessages(issues) ==
    [i \in 1..Len(issues) |-> issues[i].path \o ": " \o issues[i].message]

(***************************************************************************)
(* processEnvConfig.                                                       *)
(***************************************************************************)
EmptyStringAsUndefined(env) == env.emptyStringAsUndefined = "true"

ProcessEnvValue_Identity(flag, value) == value

ProcessEnvValue(flag, value) ==
    IF flag /\ value = "" THEN Undefined ELSE value

ProcessedRuntimeEnv(env) ==
    [n \in DOMAIN env.runtimeEnv |->
        ProcessEnvValue(EmptyStringAsUndefined(env), env.runtimeEnv[n])]

Lookup(f, k) == IF k \in DOMAIN f THEN f[k] ELSE Undefined

EnvValues(shape, processed) ==
    [k \in KeySet(shape) |-> Lookup(processed, k)]

PrefixViolations(env) ==
    SelectSeq(Keys(env.client), LAMBDA k : ~StartsWith(k, env.clientPrefix))

EnvFailure(err) ==
    [ok |-> FALSE, error |-> err, server |-> EmptyObj, client |-> EmptyObj,
     reads |-> {}, parsed |-> FALSE]

ProcessEnvConfig_CheckLast(env) ==
    LET processed == ProcessedRuntimeEnv(env)
        srv == ParseObject(env.server, EnvValues(env.server, processed))
        cli == ParseObject(env.client, EnvValues(env.client, processed))
        bad == PrefixViolations(env)
    IN  IF ~srv.ok
            THEN [EnvFailure(Err("server-env", ServerEnvTag, ErrorMessages(srv.issues)))
                    EXCEPT !.reads = DOMAIN env.runtimeEnv, !.parsed = TRUE]
        ELSE IF ~cli.ok
            THEN [EnvFailure(Err("client-env", ClientEnvTag, ErrorMessages(cli.issues)))
                    EXCEPT !.reads = DOMAIN env.runtimeEnv, !.parsed = TRUE]
        ELSE IF Len(bad) > 0
            THEN [EnvFailure(Err("prefix", Head(bad), << env.clientPrefix >>))
                    EXCEPT !.reads = DOMAIN env.runtimeEnv, !.parsed = TRUE]
        ELSE [ok |-> TRUE, error |-> NoError, server |-> srv.value,
              client |-> cli.value, reads |-> DOMAIN env.runtimeEnv, parsed |-> TRUE]

ProcessEnvConfig_FirstIssue(env) ==
    LET processed == ProcessedRuntimeEnv(env)
        srv == ParseObject(env.server, EnvValues(env.server, processed))
        cli == ParseObject(env.client, EnvValues(env.client, processed))
        bad == PrefixViolations(env)
    IN  IF Len(bad) > 0
            THEN EnvFailure(Err("prefix", Head(bad), << env.clientPrefix >>))
        ELSE IF ~srv.ok
            THEN [EnvFailure(Err("server-env", ServerEnvTag,
                                 << ErrorMessages(srv.issues)[1] >>))
                    EXCEPT !.reads = DOMAIN env.runtimeEnv, !.parsed = TRUE]
        ELSE IF ~cli.ok
            THEN [EnvFailure(Err("client-env", ClientEnvTag,
                                 << ErrorMessages(cli.issues)[1] >>))
                    EXCEPT !.reads = DOMAIN env.runtimeEnv, !.parsed = TRUE]
        ELSE [ok |-> TRUE, error |-> NoError, server |-> srv.value,
              client |-> cli.value, reads |-> DOMAIN env.runtimeEnv, parsed |-> TRUE]

\* a variant that reports the invalid variables of both groups in one error
ProcessEnvConfig_BothGroups(env) ==
    LET processed == ProcessedRuntimeEnv(env)
        srv == ParseObject(env.server, EnvValues(env.server, processed))
        cli == ParseObject(env.client, EnvValues(env.client, processed))
        bad == PrefixViolations(env)
    IN  IF Len(bad) > 0
            THEN EnvFailure(Err("prefix", Head(bad), << env.clientPrefix >>))
        ELSE IF ~srv.ok
            THEN [EnvFailure(Err("server-env", ServerEnvTag,
                                 ErrorMessages(srv.issues) \o ErrorMessages(cli.issues)))
                    EXCEPT !.reads = DOMAIN env.runtimeEnv, !.parsed = TRUE]
        ELSE IF ~cli.ok
            THEN [EnvFailure(Err("client-env", ClientEnvTag, ErrorMessages(cli.issues)))
                    EXCEPT !.reads = DOMAIN env.runtimeEnv, !.parsed = TRUE]
        ELSE [ok |-> TRUE, error |-> NoError, server |-> srv.value,
              client |-> cli.value, reads |-> DOMAIN env.runtimeEnv, parsed |-> TRUE]

ProcessEnvConfig(env) ==
    LET processed == ProcessedRuntimeEnv(env)
        srv == ParseObject(env.server, EnvValues(env.server, processed))
        cli == ParseObject(env.client, EnvValues(env.client, processed))
        bad == PrefixViolations(env)
    IN  IF Len(bad) > 0
            THEN EnvFailure(Err("prefix", Head(bad), << env.clientPrefix >>))
        ELSE IF ~srv.ok
            THEN [EnvFailure(Err("server-env", ServerEnvTag, ErrorMessages(srv.issues)))
                    EXCEPT !.reads = DOMAIN env.runtimeEnv, !.parsed = TRUE]
        ELSE IF ~cli.ok
            THEN [EnvFailure(Err("client-env", ClientEnvTag, ErrorMessages(cli.issues)))
                    EXCEPT !.reads = DOMAIN env.runtimeEnv, !.parsed = TRUE]
        ELSE [ok |-> TRUE, error |-> NoError, server |-> srv.value,
              client |-> cli.value, reads |-> DOMAIN env.runtimeEnv, parsed |-> TRUE]

(***************************************************************************)
(* Fields and resolvers.  A resolver is a caller-supplied function; the    *)
(* ones used here return the stableId, a variable of env, a number, or     *)
(* reject.                                                                 *)
(***************************************************************************)
FStatic(owner, kind, v) ==
    [owner |-> owner, validation |-> Rule(owner, kind),
     value |-> [fn |-> FALSE, kind |-> "static", arg |-> v]]

FFn(owner, kind, fnKind, arg) ==
    [owner |-> owner, validation |-> Rule(owner, kind),
     value |-> [fn |-> TRUE, kind |-> fnKind, arg |-> arg]]

IsFunction(value) == value.fn

EnvGet(env, k) == IF Has(env, k) THEN Get(env, k) ELSE Undefined

\* field.value({ stableId, env })
CallResolver(value, stableId, env) ==
    CASE value.kind = "stableId" -> [rejected |-> FALSE, value |-> stableId]
      [] value.kind = "env"      -> [rejected |-> FALSE, value |-> EnvGet(env, value.arg)]
      [] value.kind = "number"   -> [rejected |-> FALSE, value |-> "#42"]
      [] value.kind = "throws"   -> [rejected |-> TRUE, value |-> value.arg]
      [] OTHER                   -> [rejected |-> FALSE, value |-> value.arg]

StableId_KeyOnly(prefix, key) == key

StableId(prefix, key) == prefix \o "." \o key

(***************************************************************************)
(* The inputs of the model: root field declarations, plugins, root         *)
(* environment schemas and runtime environments.                           *)
(***************************************************************************)
NoConfig == [server |-> EmptyObj, client |-> EmptyObj]

RootConfigs ==
    { NoConfig,
      [server |-> << Entry("x", FStatic("root", "string", "root-x")),
                     Entry("computed", FFn("root", "min1", "stableId", "")) >>,
       client |-> << Entry("x", FStatic("root", "string", "root-cx")) >>],
      [server |-> << Entry("KEY", FStatic("root", "string", "field-KEY")),
                     Entry("dbCopy", FFn("root", "url", "env", "DB")) >>,
       client |-> << Entry("theme", FFn("root", "string", "env", "PUBLIC_X")) >>],
      [server |-> << Entry("bad", FFn("root", "string", "number", "")),
                     Entry("x", FStatic("root", "min1", "root-x")) >>,
       client |-> << Entry("boom", FFn("root", "string", "throws", "boom")) >>],
      [server |-> << Entry("first", FStatic("root", "min1", "one")),
                     Entry("boom", FFn("root", "string", "throws", "boom")) >>,
       client |-> << Entry("late", FFn("root", "min1", "stableId", "")) >>],
      [server |-> << Entry("KEY", FFn("root", "min1", "stableId", "")) >>,
       client |-> << Entry("PUBLIC_X", FFn("root", "min1", "env", "PUBLIC_X")) >>] }

PluginIds == {"A", "B", "F"}

NoFragment ==
    [server |-> EmptyObj, client |-> EmptyObj,
     env |-> [server |-> EmptyObj, client |-> EmptyObj]]

\* what a plugin declares: its fields and the rules of its variables
PluginDecl(p) ==
    CASE p = "A" ->
           [server |-> << Entry("x", FStatic("A", "string", "A-x")),
                          Entry("a.id", FFn("A", "min1", "stableId", "")) >>,
            client |-> << Entry("x", FStatic("A", "string", "A-cx")) >>,
            env |-> [server |-> << Entry("KEY", Rule("A", "url")),
                                   Entry("A_TOKEN", Rule("A", "default")) >>,
                     client |-> << Entry("PUBLIC_X", Rule("A", "min1")) >>]]
      [] p = "B" ->
           [server |-> << Entry("x", FStatic("B", "string", "B-x")) >>,
            client |-> << Entry("x", FFn("B", "string", "stableId", "")) >>,
            env |-> [server |-> << Entry("KEY", Rule("B", "min1")) >>,
                     client |-> << Entry("PUBLIC_X", Rule("B", "default")) >>]]
      [] p = "C" ->
           [server |-> << Entry("c.id", FFn("C", "min1", "stableId", "")) >>,
            client |-> EmptyObj,
            env |-> [server |-> << Entry("KEY", Rule("C", "min1")) >>,
                     client |-> << Entry("NEXT_PUBLIC_Y", Rule("C", "string")) >>]]
      [] OTHER -> NoFragment

RECURSIVE SeqsUpTo(_, _)
SeqsUpTo(S, n) ==
    IF n = 0 THEN { << >> }
    ELSE LET shorter == SeqsUpTo(S, n - 1)
         IN  shorter \cup { Append(q, e) : q \in shorter, e \in S }

PluginLists == SeqsUpTo(PluginIds, MaxPlugins)

ClientPrefix == "PUBLIC_"

RootSchemas ==
    { [server |-> EmptyObj, client |-> EmptyObj],
      [server |-> << Entry("DB", Rule("root", "url")),
                     Entry("KEY", Rule("root", "string")) >>,
       client |-> << Entry("PUBLIC_X", Rule("root", "string")) >>],
      [server |-> << Entry("DB", Rule("root", "default")) >>,
       client |-> << Entry("PUBLIC_X", Rule("root", "min1")),
                     Entry("X_BAD", Rule("root", "string")) >>] }

RuntimeEnvs ==
    { [n \in {"DB", "KEY", "A_TOKEN", "PUBLIC_X", "X_BAD"} |->
          CASE n = "DB" -> "http://h" [] n = "KEY" -> "http://k"
            [] n = "A_TOKEN" -> "tok" [] n = "PUBLIC_X" -> "hello" [] OTHER -> "z"],
      [n \in {"DB", "KEY", "PUBLIC_X"} |->
          CASE n = "DB" -> "http://h" [] OTHER -> ""],
      [n \in {"DB", "KEY"} |-> "bad"] }

Flags == {"true", "false", "undefined"}

EnvConfigs ==
    { [server |-> s.server, client |-> s.client, clientPrefix |-> ClientPrefix,
       runtimeEnv |-> r, emptyStringAsUndefined |-> f]
        : s \in RootSchemas, r \in RuntimeEnvs, f \in {"true", "undefined"} }

(***************************************************************************)
(* ConfigBuilder.                                                          *)
(***************************************************************************)
NoRuntimeEnv == [n \in {} |-> ""]

NullEnvConfig ==
    [isNull |-> TRUE, clientPrefix |-> "", runtimeEnv |-> NoRuntimeEnv,
     emptyStringAsUndefined |-> "undefined"]

\* new ConfigBuilder()
NewBuilder ==
    [serverEnvSchemas |-> EmptyObj, clientEnvSchemas |-> EmptyObj,
     envConfig |-> NullEnvConfig, plugins |-> << >>, exported |-> FALSE]

\* export const configBuilder = new ConfigBuilder(); exported tells this one
\* object from the builders the chain creates
configBuilder == [NewBuilder EXCEPT !.exported = TRUE]

AddPluginsOp(this, plugins) ==
    [serverEnvSchemas |-> this.serverEnvSchemas,
     clientEnvSchemas |-> this.clientEnvSchemas,
     envConfig |-> this.envConfig,
     plugins |-> plugins,
     exported |-> FALSE]

\* a variant that assigns the list to the receiver
AddPluginsThis_Mutates(this, plugins) == [this EXCEPT !.plugins = plugins]

\* the receiver of addPlugins after the call: no field of this is assigned
AddPluginsThis(this, plugins) == this

BuildEnvOp(this, config) ==
    [serverEnvSchemas |-> config.server,
     clientEnvSchemas |-> config.client,
     envConfig |-> [isNull |-> FALSE,
                    clientPrefix |-> config.clientPrefix,
                    runtimeEnv |-> config.runtimeEnv,
                    emptyStringAsUndefined |-> config.emptyStringAsUndefined],
     plugins |-> this.plugins,
     exported |-> FALSE]

\* the receiver of buildEnv after the call: no field of this is assigned
BuildEnvThis(this, config) == this

(***************************************************************************)
(* PluginBuilder, and build() of the plugins: A, B and C return             *)
(* pluginBuilder.buildEnv(...).defineConfig(...), any other plugin calls    *)
(* defineConfig without buildEnv.                                           *)
(***************************************************************************)
\* new PluginBuilder()
NewPluginBuilder ==
    [serverEnvSchemas |-> EmptyObj, clientEnvSchemas |-> EmptyObj,
     envConfig |-> NullEnvConfig]

pluginBuilder == NewPluginBuilder

PluginBuildEnvOp(config) ==
    [serverEnvSchemas |-> config.server,
     clientEnvSchemas |-> config.client,
     envConfig |-> [isNull |-> FALSE,
                    clientPrefix |-> config.clientPrefix,
                    runtimeEnv |-> config.runtimeEnv,
                    emptyStringAsUndefined |-> config.emptyStringAsUndefined]]

\* a variant that checks the client names against the prefix of the plugin
PluginDefineConfig_OwnPrefix(this, config) ==
    IF this.envConfig.isNull
         \/ \E k \in KeySet(this.clientEnvSchemas) :
                ~StartsWith(k, this.envConfig.clientPrefix)
      THEN [rejected |-> TRUE, config |-> NoFragment]
      ELSE [rejected |-> FALSE,
            config |-> [server |-> config.server, client |-> config.client,
                        env |-> [server |-> this.serverEnvSchemas,
                                 client |-> this.clientEnvSchemas]]]

\* { ...config, env: { server, client } }, or the throw of the precondition
PluginDefineConfig(this, config) ==
    IF this.envConfig.isNull
      THEN [rejected |-> TRUE, config |-> NoFragment]
      ELSE [rejected |-> FALSE,
            config |-> [server |-> config.server, client |-> config.client,
                        env |-> [server |-> this.serverEnvSchemas,
                                 client |-> this.clientEnvSchemas]]]

\* what a plugin passes to pluginBuilder.buildEnv beside its rules
PluginEnvSettings ==
    { [clientPrefix |-> "PUBLIC_",
       runtimeEnv |-> [n \in {"KEY", "PUBLIC_X"} |-> ""],
       emptyStringAsUndefined |-> "true"],
      [clientPrefix |-> "NEXT_PUBLIC_",
       runtimeEnv |-> NoRuntimeEnv,
       emptyStringAsUndefined |-> "undefined"] }

BuildingPlugins == {"A", "B", "C"}

\* plugin.build(): the fragment, or a rejection
PluginBuild(p, setting) ==
    IF p \in BuildingPlugins
      THEN PluginDefineConfig(
             PluginBuildEnvOp([server |-> PluginDecl(p).env.server,
                               client |-> PluginDecl(p).env.client,
                               clientPrefix |-> setting.clientPrefix,
                               runtimeEnv |-> setting.runtimeEnv,
                               emptyStringAsUndefined |-> setting.emptyStringAsUndefined]),
             PluginDecl(p))
      ELSE PluginDefineConfig(pluginBuilder, PluginDecl(p))

MergeStep_FirstWins(mergedSoFar, config) ==
    [server |-> Spread(config.server, mergedSoFar.server),
     client |-> Spread(config.client, mergedSoFar.client),
     env |-> [server |-> Spread(config.env.server, mergedSoFar.env.server),
              client |-> Spread(config.env.client, mergedSoFar.env.client)]]

\* the reducer of mergePluginConfigs
MergeStep(mergedSoFar, config) ==
    [server |-> Spread(mergedSoFar.server, config.server),
     client |-> Spread(mergedSoFar.client, config.client),
     env |-> [server |-> Spread(mergedSoFar.env.server, config.env.server),
              client |-> Spread(mergedSoFar.env.client, config.env.client)]]

RECURSIVE Reduce(_, _)
Reduce(acc, configs) ==
    IF Len(configs) = 0 THEN acc
    ELSE Reduce(MergeStep(acc, Head(configs)), Tail(configs))

MergePluginConfigs(configs) == Reduce(NoFragment, configs)

\* fullConfig of ConfigBuilder.defineConfig
FullConfig(this, config, mergedPluginConfig) ==
    [server |-> Spread(config.server, mergedPluginConfig.server),
     client |-> Spread(config.client, mergedPluginConfig.client),
     env |-> [clientPrefix |-> this.envConfig.clientPrefix,
              runtimeEnv |-> this.envConfig.runtimeEnv,
              emptyStringAsUndefined |-> this.envConfig.emptyStringAsUndefined,
              server |-> Spread(this.serverEnvSchemas, mergedPluginConfig.env.server),
              client |-> Spread(this.clientEnvSchemas, mergedPluginConfig.env.client)]]

(***************************************************************************)
(* State of a pass.                                                        *)
(***************************************************************************)
Ev(ev, arg) == [ev |-> ev, arg |-> arg]

NotMerged == [plugin |-> NoFragment,
              full |-> FullConfig(NewBuilder, NoConfig, NoFragment)]

NoEnvResult ==
    [ok |-> FALSE, error |-> NoError, server |-> EmptyObj, client |-> EmptyObj,
     reads |-> {}, parsed |-> FALSE]

NoOutput == [kind |-> "none", value |-> NoConfig]

EnvIdle ==
    [server |-> EmptyObj, client |-> EmptyObj, clientPrefix |-> "",
     runtimeEnv |-> NoRuntimeEnv, emptyStringAsUndefined |-> "undefined"]

EnvNotRun == [done |-> FALSE, res |-> NoEnvResult]

NoOutcome == [output |-> NoOutput, error |-> NoError]

\* the values of the build-mode marker: set by extractTypeInfo, some other
\* value, deleted
BuildModeMarkers == {"true", "1", Undefined}

\* a variant that takes any value of the marker for the build mode
IsBuildMode_Truthy == buildMode # Undefined

\* process.env.CONFIG_AS_CODE_BUILD_MODE === 'true'
IsBuildMode == buildMode = "true"

\* devConfig has not been called
DevIdle ==
    /\ devPc = "idle"
    /\ isBuilding = FALSE
    /\ running = 0
    /\ devLog = << >>
    /\ buildPc = "idle"

\* a variant in which the count of the plugins built survives the pass
PassReset_KeepStarted ==
    /\ UNCHANGED started
    /\ inflight' = {}
    /\ pluginConfigs' = << >>
    /\ merged' = NotMerged
    /\ envResult' = NoEnvResult
    /\ section' = "server"
    /\ fIdx' = 1
    /\ pending' = FALSE
    /\ serverResult' = EmptyObj
    /\ clientResult' = EmptyObj
    /\ output' = NoOutput
    /\ error' = NoError
    /\ log' = << >>

PassReset ==
    /\ started' = 0
    /\ inflight' = {}
    /\ pluginConfigs' = << >>
    /\ merged' = NotMerged
    /\ envResult' = NoEnvResult
    /\ section' = "server"
    /\ fIdx' = 1
    /\ pending' = FALSE
    /\ serverResult' = EmptyObj
    /\ clientResult' = EmptyObj
    /\ output' = NoOutput
    /\ error' = NoError
    /\ log' = << >>

Init ==
    /\ builder = configBuilder
    /\ singleton = configBuilder
    /\ chainLen = 0
    /\ rootConfig = NoConfig
    /\ buildMode \in BuildModeMarkers
    /\ pc = "chain"
    /\ started = 0
    /\ inflight = {}
    /\ pluginConfigs = << >>
    /\ merged = NotMerged
    /\ envResult = NoEnvResult
    /\ section = "server"
    /\ fIdx = 1
    /\ pending = FALSE
    /\ serverResult = EmptyObj
    /\ clientResult = EmptyObj
    /\ output = NoOutput
    /\ error = NoError
    /\ log = << >>
    /\ pass = 1
    /\ handed = {}
    /\ envIn = EnvIdle
    /\ envOut = EnvNotRun
    /\ prevOutcome = NoOutcome
    /\ DevIdle

Fail(err) ==
    /\ pc' = "failed"
    /\ error' = err

(***************************************************************************)
(* The builder chain.                                                      *)
(***************************************************************************)
AddPlugins(plugins) ==
    /\ pc = "chain"
    /\ pass = 1
    /\ chainLen < MaxChain
    /\ builder' = AddPluginsOp(builder, plugins)
    /\ singleton' = IF builder.exported THEN AddPluginsThis(singleton, plugins)
                                         ELSE singleton
    /\ chainLen' = chainLen + 1
    /\ UNCHANGED << rootConfig, buildMode, pc, started, inflight, pluginConfigs,
                    merged, envResult, section, fIdx, pending, serverResult,
                    clientResult, output, error, log, pass, handed, envIn, envOut,
                    prevOutcome, devVars >>

BuildEnv_CheckPrefix(config) ==
    /\ pc = "chain"
    /\ pass = 1
    /\ chainLen < MaxChain
    /\ builder' = BuildEnvOp(builder, config)
    /\ singleton' = IF builder.exported THEN BuildEnvThis(singleton, config)
                                         ELSE singleton
    /\ chainLen' = chainLen + 1
    /\ IF Len(PrefixViolations(config)) > 0
         THEN Fail(Err("prefix", Head(PrefixViolations(config)),
                       << config.clientPrefix >>))
         ELSE UNCHANGED << pc, error >>
    /\ UNCHANGED << rootConfig, buildMode, started, inflight, pluginConfigs,
                    merged, envResult, section, fIdx, pending, serverResult,
                    clientResult, output, log, pass, handed, envIn, envOut,
                    prevOutcome, devVars >>

BuildEnv(config) ==
    /\ pc = "chain"
    /\ pass = 1
    /\ chainLen < MaxChain
    /\ builder' = BuildEnvOp(builder, config)
    /\ singleton' = IF builder.exported THEN BuildEnvThis(singleton, config)
                                         ELSE singleton
    /\ chainLen' = chainLen + 1
    /\ UNCHANGED << rootConfig, buildMode, pc, started, inflight, pluginConfigs,
                    merged, envResult, section, fIdx, pending, serverResult,
                    clientResult, output, error, log, pass, handed, envIn, envOut,
                    prevOutcome, devVars >>

\* the caller drops the builder it has and starts again from the exported
\* configBuilder
NewChain ==
    /\ pc = "chain"
    /\ pass = 1
    /\ ~builder.exported
    /\ builder' = singleton
    /\ UNCHANGED << chainLen, rootConfig, buildMode, pc, started, inflight,
                    pluginConfigs, merged, envResult, section, fIdx, pending,
                    serverResult, clientResult, output, error, log, pass, handed,
                    envIn, envOut, prevOutcome, singleton, devVars >>

(***************************************************************************)
(* ConfigBuilder.defineConfig.                                             *)
(***************************************************************************)
\* a variant without the check of this.envConfig
DefineConfig_NoPrecondition(config) ==
    /\ pc = "chain"
    /\ pass = 1 \/ config = rootConfig
    /\ rootConfig' = config
    /\ log' = Append(log, Ev("callback", ""))
    /\ pc' = "plugins"
    /\ UNCHANGED << builder, chainLen, buildMode, started, inflight, pluginConfigs,
                    merged, envResult, section, fIdx, pending, serverResult,
                    clientResult, output, error, pass, handed, envIn, envOut,
                    prevOutcome, singleton, devVars >>

\* the precondition, then the evaluation of configOrCallback
DefineConfig(config) ==
    /\ pc = "chain"
    /\ pass = 1 \/ config = rootConfig
    /\ IF builder.envConfig.isNull
         THEN /\ Fail(Err("precondition",
                          "buildEnv() must be called before defineConfig()", << >>))
              /\ UNCHANGED << rootConfig, log >>
         ELSE /\ rootConfig' = config
              /\ log' = Append(log, Ev("callback", ""))
              /\ pc' = "plugins"
              /\ UNCHANGED error
    /\ UNCHANGED << builder, chainLen, buildMode, started, inflight, pluginConfigs,
                    merged, envResult, section, fIdx, pending, serverResult,
                    clientResult, output, pass, handed, envIn, envOut,
                    prevOutcome, singleton, devVars >>

\* await plugin.build(): the loop does not go on before the build has settled
AwaitSettled_Concurrent == TRUE

AwaitSettled == inflight = {}

PluginBuildStart ==
    /\ pc = "plugins"
    /\ started < Len(builder.plugins)
    /\ AwaitSettled
    /\ started' = started + 1
    /\ inflight' = inflight \cup {started + 1}
    /\ log' = Append(log, Ev("build-start", builder.plugins[started + 1]))
    /\ UNCHANGED << builder, chainLen, rootConfig, buildMode, pc, pluginConfigs,
                    merged, envResult, section, fIdx, pending, serverResult,
                    clientResult, output, error, pass, handed, envIn, envOut,
                    prevOutcome, singleton, devVars >>

PluginBuildSettle_Swallow(i) ==
    /\ pc = "plugins"
    /\ i \in inflight
    /\ inflight' = inflight \ {i}
    /\ \E setting \in PluginEnvSettings :
       LET r == PluginBuild(builder.plugins[i], setting)
       IN  /\ pluginConfigs' = Append(pluginConfigs, r.config)
           /\ log' = Append(log, Ev(IF r.rejected THEN "build-rejected" ELSE "build-ok",
                                    builder.plugins[i]))
           /\ UNCHANGED << pc, error >>
    /\ UNCHANGED << builder, chainLen, rootConfig, buildMode, started, merged,
                    envResult, section, fIdx, pending, serverResult, clientResult,
                    output, pass, handed, envIn, envOut,
                    prevOutcome, singleton, devVars >>

\* a variant in which the rejection of a build never reaches the loop
PluginBuildSettle_Lost(i) ==
    /\ pc = "plugins"
    /\ i \in inflight
    /\ inflight' = inflight \ {i}
    /\ \E setting \in PluginEnvSettings :
          /\ ~PluginBuild(builder.plugins[i], setting).rejected
          /\ pluginConfigs' = Append(pluginConfigs,
                                     PluginBuild(builder.plugins[i], setting).config)
    /\ log' = Append(log, Ev("build-ok", builder.plugins[i]))
    /\ UNCHANGED << builder, chainLen, rootConfig, buildMode, pc, started, merged,
                    envResult, section, fIdx, pending, serverResult, clientResult,
                    output, error, pass, handed, envIn, envOut,
                    prevOutcome, singleton, devVars >>

PluginBuildSettle(i) ==
    /\ pc = "plugins"
    /\ i \in inflight
    /\ inflight' = inflight \ {i}
    /\ \E setting \in PluginEnvSettings :
       LET r == PluginBuild(builder.plugins[i], setting)
       IN  IF r.rejected
             THEN /\ Fail(Err("plugin", builder.plugins[i], << >>))
                  /\ log' = Append(log, Ev("build-rejected", builder.plugins[i]))
                  /\ UNCHANGED pluginConfigs
             ELSE /\ pluginConfigs' = Append(pluginConfigs, r.config)
                  /\ log' = Append(log, Ev("build-ok", builder.plugins[i]))
                  /\ UNCHANGED << pc, error >>
    /\ UNCHANGED << builder, chainLen, rootConfig, buildMode, started, merged,
                    envResult, section, fIdx, pending, serverResult, clientResult,
                    output, pass, handed, envIn, envOut,
                    prevOutcome, singleton, devVars >>

\* mergePluginConfigs, fullConfig, and the call of defineConfig(fullConfig)
MergeConfigs ==
    /\ pc = "plugins"
    /\ started = Len(builder.plugins)
    /\ inflight = {}
    /\ LET mergedPluginConfig == MergePluginConfigs(pluginConfigs)
       IN  merged' = [plugin |-> mergedPluginConfig,
                      full |-> FullConfig(builder, rootConfig, mergedPluginConfig)]
    /\ pc' = "define"
    /\ log' = Append(log, Ev("define", ""))
    /\ UNCHANGED << builder, chainLen, rootConfig, buildMode, started, inflight,
                    pluginConfigs, envResult, section, fIdx, pending, serverResult,
                    clientResult, output, error, pass, handed, envIn, envOut,
                    prevOutcome, singleton, devVars >>

(***************************************************************************)
(* defineConfig (the engine) and processConfigObject.                      *)
(***************************************************************************)
\* a variant that goes on to the fields whatever processEnvConfig gave
EngineStart_IgnoreEnvFailure ==
    /\ pc = "define"
    /\ IF IsBuildMode
         THEN /\ output' = [kind |-> "raw", value |-> merged.full]
              /\ pc' = "resolved"
              /\ UNCHANGED << envResult, log >>
         ELSE LET r == ProcessEnvConfig(merged.full.env)
              IN  /\ envResult' = r
                  /\ log' = Append(log, Ev("env", r.error.kind))
                  /\ pc' = "fields"
                  /\ UNCHANGED output
    /\ section' = "server"
    /\ fIdx' = 1
    /\ UNCHANGED << builder, chainLen, rootConfig, buildMode, started, inflight,
                    pluginConfigs, merged, pending, serverResult, clientResult,
                    error, pass, handed, envIn, envOut, prevOutcome, singleton, devVars >>

\* the build-mode return, or processEnvConfig(config.env)
EngineStart ==
    /\ pc = "define"
    /\ IF IsBuildMode
         THEN /\ output' = [kind |-> "raw", value |-> merged.full]
              /\ pc' = "resolved"
              /\ UNCHANGED << envResult, error, log >>
         ELSE LET r == ProcessEnvConfig(merged.full.env)
              IN  /\ envResult' = r
                  /\ log' = Append(log, Ev("env", r.error.kind))
                  /\ IF r.ok THEN pc' = "fields" /\ UNCHANGED error
                             ELSE Fail(r.error)
                  /\ UNCHANGED output
    /\ section' = "server"
    /\ fIdx' = 1
    /\ UNCHANGED << builder, chainLen, rootConfig, buildMode, started, inflight,
                    pluginConfigs, merged, pending, serverResult, clientResult,
                    pass, handed, envIn, envOut,
                    prevOutcome, singleton, devVars >>

ConfigObj == IF section = "server" THEN merged.full.server ELSE merged.full.client

\* a variant that hands the server mapping to the resolvers of both sections
SectionEnv_AlwaysServer == envResult.server

SectionEnv == IF section = "server" THEN envResult.server ELSE envResult.client

Joined(msgs) ==
    IF Len(msgs) = 0 THEN ""
    ELSE IF Len(msgs) = 1 THEN msgs[1]
    ELSE msgs[1] \o ", " \o msgs[2]

\* a variant that leaves a field whose value fails its rule out of the result
Validate_SkipInvalid(key, field, stableId, resolvedValue) ==
    LET r == ParseRule(field.validation, resolvedValue)
    IN  /\ log' = Append(log, Ev("validate", stableId))
        /\ IF r.ok /\ section = "server"
             THEN serverResult' = Put(serverResult, key, r.value)
             ELSE UNCHANGED serverResult
        /\ IF r.ok /\ section = "client"
             THEN clientResult' = Put(clientResult, key, r.value)
             ELSE UNCHANGED clientResult
        /\ fIdx' = fIdx + 1
        /\ UNCHANGED << pc, error >>

\* a variant that collects the failures of the fields and goes on
Validate_Aggregating(key, field, stableId, resolvedValue) ==
    LET r == ParseRule(field.validation, resolvedValue)
    IN  /\ log' = Append(log, Ev("validate", stableId))
        /\ IF r.ok /\ section = "server"
             THEN serverResult' = Put(serverResult, key, r.value)
             ELSE UNCHANGED serverResult
        /\ IF r.ok /\ section = "client"
             THEN clientResult' = Put(clientResult, key, r.value)
             ELSE UNCHANGED clientResult
        /\ IF r.ok
             THEN UNCHANGED error
             ELSE error' = Err("field",
                               IF error = NoError THEN stableId ELSE error.subject,
                               Append(error.lines,
                                      "Validation failed for " \o stableId \o ": "
                                         \o Joined(r.issues)))
        /\ fIdx' = fIdx + 1
        /\ UNCHANGED pc

\* field.validation.parse(resolvedValue); result[key] = validatedValue
Validate(key, field, stableId, resolvedValue) ==
    LET r == ParseRule(field.validation, resolvedValue)
    IN  /\ log' = Append(log, Ev("validate", stableId))
        /\ IF r.ok
             THEN /\ IF section = "server"
                       THEN /\ serverResult' = Put(serverResult, key, r.value)
                            /\ UNCHANGED clientResult
                       ELSE /\ clientResult' = Put(clientResult, key, r.value)
                            /\ UNCHANGED serverResult
                  /\ fIdx' = fIdx + 1
                  /\ UNCHANGED << pc, error >>
             ELSE /\ Fail(Err("field", stableId,
                              << "Validation failed for " \o stableId \o ": "
                                    \o Joined(r.issues) >>))
                  /\ UNCHANGED << serverResult, clientResult, fIdx >>

\* an entry whose value is not a function
FieldStatic ==
    /\ pc = "fields"
    /\ fIdx <= Len(ConfigObj)
    /\ ~IsFunction(ConfigObj[fIdx].v.value)
    /\ Validate(ConfigObj[fIdx].k, ConfigObj[fIdx].v,
                StableId(section, ConfigObj[fIdx].k), ConfigObj[fIdx].v.value.arg)
    /\ UNCHANGED << builder, chainLen, rootConfig, buildMode, started, inflight,
                    pluginConfigs, merged, envResult, section, pending, output,
                    pass, handed, envIn, envOut,
                    prevOutcome, singleton, devVars >>

\* await field.value({ stableId, env }): the invocation
FieldInvoke ==
    /\ pc = "fields"
    /\ fIdx <= Len(ConfigObj)
    /\ IsFunction(ConfigObj[fIdx].v.value)
    /\ ~pending
    /\ pending' = TRUE
    /\ log' = Append(log, [ev |-> "resolve",
                           arg |-> StableId(section, ConfigObj[fIdx].k),
                           section |-> section, env |-> SectionEnv])
    /\ handed' = handed \cup
                   { [section |-> section, name |-> ConfigObj[fIdx].k,
                      stableId |-> StableId(section, ConfigObj[fIdx].k)] }
    /\ UNCHANGED << builder, chainLen, rootConfig, buildMode, pc, started, inflight,
                    pluginConfigs, merged, envResult, section, fIdx, serverResult,
                    clientResult, output, error, pass, envIn, envOut,
                    prevOutcome, singleton, devVars >>

\* the resolver settles: a rejection is rethrown, a value is validated
FieldSettle ==
    /\ pc = "fields"
    /\ pending
    /\ pending' = FALSE
    /\ LET key == ConfigObj[fIdx].k
           field == ConfigObj[fIdx].v
           stableId == StableId(section, key)
           r == CallResolver(field.value, stableId, SectionEnv)
       IN  IF r.rejected
             THEN /\ Fail(Err("resolver", "", << r.value >>))
                  /\ UNCHANGED << serverResult, clientResult, fIdx, log >>
             ELSE Validate(key, field, stableId, r.value)
    /\ UNCHANGED << builder, chainLen, rootConfig, buildMode, started, inflight,
                    pluginConfigs, merged, envResult, section, output, pass,
                    handed, envIn, envOut,
                    prevOutcome, singleton, devVars >>

\* a variant that starts the client section while server fields are left
ServerDone_NoWait ==
    /\ pc = "fields"
    /\ section = "server"
    /\ ~pending
    /\ section' = "client"
    /\ fIdx' = 1
    /\ UNCHANGED << builder, chainLen, rootConfig, buildMode, pc, started, inflight,
                    pluginConfigs, merged, envResult, pending, serverResult,
                    clientResult, output, error, log, pass, handed, envIn, envOut,
                    prevOutcome, singleton, devVars >>

\* processConfigObject(config.server, ...) returns; the client section follows
ServerDone ==
    /\ pc = "fields"
    /\ section = "server"
    /\ fIdx > Len(ConfigObj)
    /\ section' = "client"
    /\ fIdx' = 1
    /\ UNCHANGED << builder, chainLen, rootConfig, buildMode, pc, started, inflight,
                    pluginConfigs, merged, envResult, pending, serverResult,
                    clientResult, output, error, log, pass, handed, envIn, envOut,
                    prevOutcome, singleton, devVars >>

\* a variant that merges the server environment into both result objects
Finish_LeakServerEnv ==
    /\ pc = "fields"
    /\ section = "client"
    /\ fIdx > Len(ConfigObj)
    /\ serverResult' = Spread(serverResult, envResult.server)
    /\ clientResult' = Spread(Spread(clientResult, envResult.server), envResult.client)
    /\ output' = [kind |-> "resolved",
                  value |-> [server |-> serverResult', client |-> clientResult']]
    /\ pc' = "resolved"
    /\ UNCHANGED << builder, chainLen, rootConfig, buildMode, started, inflight,
                    pluginConfigs, merged, envResult, section, fIdx, pending,
                    error, log, pass, handed, envIn, envOut,
                    prevOutcome, singleton, devVars >>

\* a variant in which a field keeps its value against a variable of its name
Finish_FieldWins ==
    /\ pc = "fields"
    /\ section = "client"
    /\ fIdx > Len(ConfigObj)
    /\ serverResult' = Spread(envResult.server, serverResult)
    /\ clientResult' = Spread(envResult.client, clientResult)
    /\ output' = [kind |-> "resolved",
                  value |-> [server |-> serverResult', client |-> clientResult']]
    /\ pc' = "resolved"
    /\ UNCHANGED << builder, chainLen, rootConfig, buildMode, started, inflight,
                    pluginConfigs, merged, envResult, section, fIdx, pending,
                    error, log, pass, handed, envIn, envOut,
                    prevOutcome, singleton, devVars >>

\* the merge with the env results and the return of defineConfig
Finish ==
    /\ pc = "fields"
    /\ section = "client"
    /\ fIdx > Len(ConfigObj)
    /\ serverResult' = Spread(serverResult, envResult.server)
    /\ clientResult' = Spread(clientResult, envResult.client)
    /\ output' = [kind |-> "resolved",
                  value |-> [server |-> serverResult', client |-> clientResult']]
    /\ pc' = "resolved"
    /\ UNCHANGED << builder, chainLen, rootConfig, buildMode, started, inflight,
                    pluginConfigs, merged, envResult, section, fIdx, pending,
                    error, log, pass, handed, envIn, envOut,
                    prevOutcome, singleton, devVars >>

\* the configuration module is evaluated again (require of the compiled config)
Reload ==
    /\ pc \in {"resolved", "failed"}
    /\ pass < MaxPasses
    /\ pass' = pass + 1
    /\ pc' = "chain"
    /\ PassReset
    /\ prevOutcome' = [output |-> output, error |-> error]
    /\ UNCHANGED << builder, chainLen, rootConfig, buildMode, handed, envIn, envOut,
                    singleton, devVars >>

Next ==
    \/ \E plugins \in PluginLists : AddPlugins(plugins)
    \/ \E config \in EnvConfigs : BuildEnv(config)
    \/ NewChain
    \/ \E config \in RootConfigs : DefineConfig(config)
    \/ PluginBuildStart
    \/ \E i \in 1..MaxPlugins : PluginBuildSettle(i)
    \/ MergeConfigs
    \/ EngineStart
    \/ FieldStatic
    \/ FieldInvoke
    \/ FieldSettle
    \/ ServerDone
    \/ Finish
    \/ Reload

\* the marker is 'true' or absent when the module is loaded; the passes under
\* a marker of another value are those of SpecLive and SpecPlugin
InitChain == Init /\ buildMode \in {"true", Undefined}

Spec == InitChain /\ [][Next]_vars

(***************************************************************************)
(* One pass whose builds and resolvers settle: every build() and every     *)
(* resolver that was invoked settles in the end, and the steps of the      *)
(* engine between two awaits are taken.                                    *)
(***************************************************************************)
LiveEnvConfigs ==
    { c \in EnvConfigs :
        c.emptyStringAsUndefined = "undefined" /\ "A_TOKEN" \in DOMAIN c.runtimeEnv }

LivePluginLists == { << >>, << "A" >>, << "B", "A" >>, << "A", "F" >> }

\* the synchronous steps of ConfigBuilder.defineConfig and defineConfig
EngineStep ==
    \/ PluginBuildStart
    \/ MergeConfigs
    \/ EngineStart
    \/ FieldStatic
    \/ FieldInvoke
    \/ ServerDone
    \/ Finish

\* the promise of a build() settles
BuildSettles == \E i \in 1..MaxPlugins : PluginBuildSettle(i)

\* a step of the pass: of the engine, or the settling of what it awaits
PassStep == EngineStep \/ BuildSettles \/ FieldSettle

NextLive ==
    \/ \E plugins \in LivePluginLists : AddPlugins(plugins)
    \/ \E config \in LiveEnvConfigs : BuildEnv(config)
    \/ \E config \in RootConfigs : DefineConfig(config)
    \/ EngineStep
    \/ BuildSettles
    \/ FieldSettle

SpecLive ==
    /\ Init
    /\ [][NextLive]_vars
    /\ WF_vars(PassStep)

(***************************************************************************)
(* One pass over plugins built with pluginBuilder, one of which declares a *)
(* client variable under a prefix of its own.                              *)
(***************************************************************************)
PrefixPluginLists ==
    { << "B" >>, << "C" >>, << "A", "C" >>, << "C", "B" >>, << "C", "F" >> }

NextPlugin ==
    \/ \E plugins \in PrefixPluginLists : AddPlugins(plugins)
    \/ \E config \in LiveEnvConfigs : BuildEnv(config)
    \/ \E config \in RootConfigs : DefineConfig(config)
    \/ PassStep

SpecPlugin == Init /\ [][NextPlugin]_vars

(***************************************************************************)
(* One run of buildConfig: the configuration module is loaded by           *)
(* getResolvedConfig and, when that load has resolved, loaded again by      *)
(* extractTypeInfo.  A load evaluates the builder chain and defineConfig.  *)
(***************************************************************************)
\* buildConfig is called: the file test and compileConfig, then
\* getResolvedConfig deletes the marker and requires the module
BuildConfig(ok) ==
    /\ buildPc = "idle"
    /\ pc = "chain"
    /\ IF ok THEN /\ buildPc' = "first"
                  /\ buildMode' = Undefined
             ELSE /\ buildPc' = "failed"
                  /\ UNCHANGED buildMode
    /\ UNCHANGED << builder, chainLen, rootConfig, pc, started, inflight,
                    pluginConfigs, merged, envResult, section, fIdx, pending,
                    serverResult, clientResult, output, error, log, pass, handed,
                    envIn, envOut, prevOutcome, singleton, devPc, isBuilding,
                    running, devLog >>

\* the module is evaluated: the chain of the first load, defineConfig and
\* the steps of its pass
LoadStep ==
    \/ /\ buildPc = "first"
       /\ \/ \E plugins \in LivePluginLists : AddPlugins(plugins)
          \/ \E config \in LiveEnvConfigs : BuildEnv(config)
    \/ /\ buildPc \in {"first", "second"}
       /\ \/ \E config \in RootConfigs : DefineConfig(config)
          \/ PassStep

\* the catch of getResolvedConfig: buildConfig rejects, nothing is loaded again
FirstLoadFails ==
    /\ buildPc = "first"
    /\ pc = "failed"
    /\ buildPc' = "failed"
    /\ UNCHANGED << passVars, envIn, envOut, devPc, isBuilding, running, devLog >>

\* a variant that requires the module again without setting the marker
ExtractTypeInfo_NoMarker ==
    /\ buildPc = "first"
    /\ pc = "resolved"
    /\ pass < MaxPasses
    /\ buildPc' = "second"
    /\ pass' = pass + 1
    /\ pc' = "chain"
    /\ PassReset
    /\ prevOutcome' = [output |-> output, error |-> error]
    /\ UNCHANGED << builder, chainLen, rootConfig, buildMode, handed, envIn, envOut,
                    singleton, devPc, isBuilding, running, devLog >>

\* getResolvedConfig has returned; extractTypeInfo sets the marker to 'true'
\* and requires the module again
ExtractTypeInfo ==
    /\ buildPc = "first"
    /\ pc = "resolved"
    /\ pass < MaxPasses
    /\ buildPc' = "second"
    /\ buildMode' = "true"
    /\ pass' = pass + 1
    /\ pc' = "chain"
    /\ PassReset
    /\ prevOutcome' = [output |-> output, error |-> error]
    /\ UNCHANGED << builder, chainLen, rootConfig, handed, envIn, envOut,
                    singleton, devPc, isBuilding, running, devLog >>

\* extractTypeInfo returns or throws: the marker is deleted on both paths
ExtractExit ==
    /\ buildPc = "second"
    /\ pc \in {"resolved", "failed"}
    /\ buildMode' = Undefined
    /\ buildPc' = IF pc = "resolved" THEN "written" ELSE "failed"
    /\ UNCHANGED << builder, chainLen, rootConfig, pc, started, inflight,
                    pluginConfigs, merged, envResult, section, fIdx, pending,
                    serverResult, clientResult, output, error, log, pass, handed,
                    envIn, envOut, prevOutcome, singleton, devPc, isBuilding,
                    running, devLog >>

NextBuild ==
    \/ \E ok \in BOOLEAN : BuildConfig(ok)
    \/ LoadStep
    \/ FirstLoadFails
    \/ ExtractTypeInfo
    \/ ExtractExit

SpecBuild == Init /\ [][NextBuild]_vars

(***************************************************************************)
(* processEnvConfig on its own, over every Environment Schema and runtime  *)
(* environment of a bounded family.                                        *)
(***************************************************************************)
EnvNames == {"DB", "KEY", "PUBLIC_X", "PUBLIC_Y", "X_BAD"}

EnvStrings == {"", "http://h", "bad"}

AllRuntimeEnvs == UNION { [S -> EnvStrings] : S \in SUBSET EnvNames }

ServerShapes ==
    { EmptyObj,
      << Entry("DB", Rule("root", "url")), Entry("KEY", Rule("root", "string")) >>,
      << Entry("KEY", Rule("root", "min1url")), Entry("DB", Rule("root", "default")) >> }

ClientShapes ==
    { << Entry("PUBLIC_X", Rule("root", "optional")) >>,
      << Entry("PUBLIC_X", Rule("root", "string")),
         Entry("PUBLIC_Y", Rule("root", "min1")) >>,
      << Entry("PUBLIC_Y", Rule("root", "default")),
         Entry("X_BAD", Rule("root", "string")) >> }

EnvInputs ==
    { [server |-> s, client |-> c, clientPrefix |-> p, runtimeEnv |-> r,
       emptyStringAsUndefined |-> f]
        : s \in ServerShapes, c \in ClientShapes, p \in {ClientPrefix, ""},
          r \in AllRuntimeEnvs, f \in Flags }

InitEnv ==
    /\ builder = configBuilder
    /\ singleton = configBuilder
    /\ chainLen = 0
    /\ rootConfig = NoConfig
    /\ buildMode = Undefined
    /\ pc = "chain"
    /\ started = 0
    /\ inflight = {}
    /\ pluginConfigs = << >>
    /\ merged = NotMerged
    /\ envResult = NoEnvResult
    /\ section = "server"
    /\ fIdx = 1
    /\ pending = FALSE
    /\ serverResult = EmptyObj
    /\ clientResult = EmptyObj
    /\ output = NoOutput
    /\ error = NoError
    /\ log = << >>
    /\ pass = 1
    /\ handed = {}
    /\ envIn \in EnvInputs
    /\ envOut = EnvNotRun
    /\ prevOutcome = NoOutcome
    /\ DevIdle

RunProcessEnvConfig ==
    /\ ~envOut.done
    /\ envOut' = [done |-> TRUE, res |-> ProcessEnvConfig(envIn)]
    /\ UNCHANGED << envIn, passVars, devVars >>

NextEnv == RunProcessEnvConfig

SpecEnv == InitEnv /\ [][NextEnv]_vars

(***************************************************************************)
(* devConfig: the initial build, then the watcher and its change handler.  *)
(* buildConfig is an asynchronous call that settles with success or with   *)
(* failure.                                                                *)
(***************************************************************************)
ChangeEvents == {"change-unwatched", "change-skipped", "change-rebuild"}

BuildStartEvents == {"initial-build", "change-rebuild"}

BuildSettleEvents == {"initial-ok", "initial-failed", "rebuild-ok", "rebuild-failed"}

DevCount(evs, n) == Cardinality({ i \in 1..n : devLog[i] \in evs })

InitDev == Init /\ buildMode = Undefined

\* devConfig is called: await buildConfig(configPath, options)
DevConfig ==
    /\ devPc = "idle"
    /\ devPc' = "initial"
    /\ running' = running + 1
    /\ devLog' = Append(devLog, "initial-build")
    /\ UNCHANGED << isBuilding, passVars, envIn, envOut, buildPc >>

\* the initial build settles; the watcher is created, let isBuilding = false
InitialBuildSettle(ok) ==
    /\ devPc = "initial"
    /\ running' = running - 1
    /\ devLog' = Append(devLog, IF ok THEN "initial-ok" ELSE "initial-failed")
    /\ devPc' = "watching"
    /\ isBuilding' = FALSE
    /\ UNCHANGED << passVars, envIn, envOut, buildPc >>

\* a variant of the handler without the test of isBuilding
SkipIfBuilding_Never == FALSE

\* if (isBuilding) { return; }
SkipIfBuilding == isBuilding

\* the watched file changes; once the watcher exists its handler runs
Change ==
    /\ devPc \in {"initial", "watching"}
    /\ DevCount(ChangeEvents, Len(devLog)) < MaxChanges
    /\ IF devPc = "initial"
         THEN /\ devLog' = Append(devLog, "change-unwatched")
              /\ UNCHANGED << isBuilding, running >>
         ELSE IF SkipIfBuilding
         THEN /\ devLog' = Append(devLog, "change-skipped")
              /\ UNCHANGED << isBuilding, running >>
         ELSE /\ isBuilding' = TRUE
              /\ running' = running + 1
              /\ devLog' = Append(devLog, "change-rebuild")
    /\ UNCHANGED << devPc, passVars, envIn, envOut, buildPc >>

\* a variant that rebuilds at once when a change was skipped during the build
RebuildSettle_Queued(ok) ==
    LET queued == \E i \in 1..Len(devLog) :
                     /\ devLog[i] = "change-skipped"
                     /\ \A j \in (i + 1)..Len(devLog) : devLog[j] # "change-rebuild"
    IN  /\ devPc = "watching"
        /\ running > 0
        /\ running' = IF queued THEN running ELSE running - 1
        /\ devLog' = Append(devLog, IF ok THEN "rebuild-ok" ELSE "rebuild-failed")
        /\ isBuilding' = queued
        /\ UNCHANGED << devPc, passVars, envIn, envOut, buildPc >>

\* a variant that resets isBuilding after a successful rebuild only
RebuildSettle_StuckOnFailure(ok) ==
    /\ devPc = "watching"
    /\ running > 0
    /\ running' = running - 1
    /\ devLog' = Append(devLog, IF ok THEN "rebuild-ok" ELSE "rebuild-failed")
    /\ isBuilding' = IF ok THEN FALSE ELSE isBuilding
    /\ UNCHANGED << devPc, passVars, envIn, envOut, buildPc >>

\* the buildConfig call of the handler settles; isBuilding = false
RebuildSettle(ok) ==
    /\ devPc = "watching"
    /\ running > 0
    /\ running' = running - 1
    /\ devLog' = Append(devLog, IF ok THEN "rebuild-ok" ELSE "rebuild-failed")
    /\ isBuilding' = FALSE
    /\ UNCHANGED << devPc, passVars, envIn, envOut, buildPc >>

\* SIGINT or SIGTERM: watcher.close(); process.exit(0)
Shutdown ==
    /\ devPc = "watching"
    /\ devPc' = "closed"
    /\ running' = 0
    /\ devLog' = Append(devLog, "shutdown")
    /\ UNCHANGED << isBuilding, passVars, envIn, envOut, buildPc >>

NextDev ==
    \/ DevConfig
    \/ \E ok \in BOOLEAN : InitialBuildSettle(ok)
    \/ Change
    \/ \E ok \in BOOLEAN : RebuildSettle(ok)
    \/ Shutdown

SpecDev == InitDev /\ [][NextDev]_vars

(***************************************************************************)
(* Vocabulary of the properties.                                           *)
(***************************************************************************)
Sections == {"server", "client"}

Logged(ev) == \E i \in 1..Len(log) : log[i].ev = ev

Events(evs) == SelectSeq(log, LAMBDA e : e.ev \in evs)

\* mergePluginConfigs has returned and fullConfig has been built
Merged == Logged("define")

RootSchema(s) ==
    IF s = "server" THEN builder.serverEnvSchemas ELSE builder.clientEnvSchemas

\* what validating the resolved value of a field against its own rule gives
FieldValue(field, s, name) ==
    ParseRule(field.validation,
              IF IsFunction(field.value)
                THEN CallResolver(field.value, s \o "." \o name, envResult[s]).value
                ELSE field.value.arg).value

Resolved == pc = "resolved" /\ output.kind = "resolved"

\* a field named x is declared by the root and by a plugin in section s
FieldCollision(s, x) ==
    /\ Has(rootConfig[s], x)
    /\ Has(merged.plugin[s], x)
    /\ ~Has(merged.full.env[s], x)

\* C1: when the root and a plugin both declare a field x in one section
\* (x not being an environment-variable name), the resolved output's x is
\* the validated value of the root field.
C1_RootFieldWins ==
    Resolved =>
        \A s \in Sections : \A x \in KeySet(rootConfig[s]) :
            FieldCollision(s, x) =>
                Get(output.value[s], x) = FieldValue(Get(rootConfig[s], x), s, x)

\* C2: when the root schema and a plugin fragment both declare an
\* environment rule Y in one section, the rule Y is validated with is the
\* root's rule.
C2_RootEnvRuleWins ==
    Merged =>
        \A s \in Sections : \A y \in KeySet(RootSchema(s)) :
            Has(merged.plugin.env[s], y) =>
                Get(merged.full.env[s], y) = Get(RootSchema(s), y)

\* the four mappings of a fragment
Parts == {"server", "client", "envServer", "envClient"}

Part(config, part) ==
    CASE part = "server"    -> config.server
      [] part = "client"    -> config.client
      [] part = "envServer" -> config.env.server
      [] OTHER              -> config.env.client

\* C3: the merged plugin fragment holds, for every name, the entry of the
\* last registered plugin that contributes the name, and a collision between
\* plugins raises no error: once every build has settled the pass goes on to
\* defineConfig.
C3_LastRegistrationWins ==
    /\ (pc \notin {"chain", "plugins"} /\ error.kind \notin {"plugin", "precondition"})
         => Merged
    /\ Merged =>
         \A part \in Parts :
            /\ KeySet(Part(merged.plugin, part))
                 = UNION { KeySet(Part(pluginConfigs[j], part))
                             : j \in 1..Len(pluginConfigs) }
            /\ \A j \in 1..Len(pluginConfigs) :
                 \A k \in KeySet(Part(pluginConfigs[j], part)) :
                    (\A l \in (j + 1)..Len(pluginConfigs) :
                        ~Has(Part(pluginConfigs[l], part), k))
                    => Get(Part(merged.plugin, part), k)
                         = Get(Part(pluginConfigs[j], part), k)

C3_Witness ==
    /\ Merged
    /\ builder.plugins = << "A", "B" >>
    /\ Get(merged.plugin.server, "x").owner = "B"
    /\ Get(merged.plugin.env.server, "KEY").owner = "B"
    /\ pc = "fields"

BuildEvents == Events({"build-start", "build-ok", "build-rejected"})

BuildStarts == Events({"build-start"})

\* C4: build() is invoked once per registered plugin, in registration order,
\* and never while another build is in flight.
C4_SequentialBuilds ==
    /\ Cardinality(inflight) <= 1
    /\ Len(BuildStarts) <= Len(builder.plugins)
    /\ \A k \in 1..Len(BuildStarts) : BuildStarts[k].arg = builder.plugins[k]
    /\ \A i \in 1..Len(BuildEvents) :
         IF i % 2 = 1 THEN BuildEvents[i].ev = "build-start"
         ELSE /\ BuildEvents[i].ev # "build-start"
              /\ BuildEvents[i].arg = BuildEvents[i - 1].arg
    /\ Merged => /\ Len(BuildStarts) = Len(builder.plugins)
                 /\ Len(BuildEvents) = 2 * Len(builder.plugins)

C4_Witness ==
    /\ Merged
    /\ builder.plugins = << "B", "A" >>
    /\ Len(BuildEvents) = 4

\* C5: a plugin whose build() rejects fails the pass with that failure, and
\* nothing of the environment is read or validated, no resolver is invoked
\* and no field is validated.
C5_BuildFailureAborts ==
    \A i \in 1..Len(log) :
        log[i].ev = "build-rejected" =>
            /\ pc = "failed"
            /\ error = Err("plugin", log[i].arg, << >>)
            /\ output.kind = "none"
            /\ ~envResult.parsed
            /\ envResult.reads = {}
            /\ ~Logged("define") /\ ~Logged("env")
            /\ ~Logged("resolve") /\ ~Logged("validate")
            /\ i = Len(log)

C5_Witness ==
    /\ error.kind = "plugin"
    /\ builder.plugins = << "A", "F" >>
    /\ Len(pluginConfigs) = 1
    /\ Len(builder.serverEnvSchemas) > 0
    /\ Len(rootConfig.server) > 0

HasBadClientName(client, prefix) ==
    \E k \in KeySet(client) : ~StartsWith(k, prefix)

\* each variable of a shape validated on its own against the runtime
\* environment, after the empty-string normalization
InvalidVars(shape, env) ==
    { k \in KeySet(shape) :
        LET raw == Lookup(env.runtimeEnv, k)
            v == IF env.emptyStringAsUndefined = "true" /\ raw = ""
                   THEN Undefined ELSE raw
        IN  ~ParseRule(Get(shape, k), v).ok }

\* C6: a schema with a client rule name that does not start with
\* clientPrefix fails with the prefix error before any runtimeEnv value is
\* read or validated, whatever runtimeEnv holds.
C6_PrefixBeforeEnv ==
    (envOut.done /\ HasBadClientName(envIn.client, envIn.clientPrefix)) =>
        /\ ~envOut.res.ok
        /\ envOut.res.error.kind = "prefix"
        /\ ~StartsWith(envOut.res.error.subject, envIn.clientPrefix)
        /\ envOut.res.reads = {}
        /\ ~envOut.res.parsed

C6_Witness ==
    /\ envOut.done
    /\ HasBadClientName(envIn.client, envIn.clientPrefix)
    /\ InvalidVars(envIn.server, envIn) = {}
    /\ InvalidVars(envIn.client, envIn) = {}
    /\ Len(envIn.server) > 0
    /\ DOMAIN envIn.runtimeEnv = EnvNames
    /\ envOut.res.error.kind = "prefix"

BadRootPrefix ==
    /\ ~builder.envConfig.isNull
    /\ HasBadClientName(builder.clientEnvSchemas, builder.envConfig.clientPrefix)

Outcome(res) ==
    [ok |-> res.ok, error |-> res.error, server |-> res.server, client |-> res.client]

EmptyVars(env) == { n \in DOMAIN env.runtimeEnv : env.runtimeEnv[n] = "" }

\* the runtime environment with the variables of S absent
Without(env, S) ==
    [env EXCEPT !.runtimeEnv = [n \in (DOMAIN env.runtimeEnv) \ S |-> env.runtimeEnv[n]]]

\* C8: with emptyStringAsUndefined true, turning any variables that are ""
\* into absent ones does not change the outcome of the validation, and a
\* variable that is "" under a rule without default fails as a missing one.
C8_EmptyEqualsAbsent ==
    (envOut.done /\ envIn.emptyStringAsUndefined = "true") =>
        /\ \A S \in SUBSET EmptyVars(envIn) :
              Outcome(ProcessEnvConfig(Without(envIn, S))) = Outcome(envOut.res)
        /\ \A k \in KeySet(envIn.server) \cap EmptyVars(envIn) :
              (/\ ~HasBadClientName(envIn.client, envIn.clientPrefix)
               /\ Get(envIn.server, k).kind \notin {"default", "optional"})
              => /\ envOut.res.error.kind = "server-env"
                 /\ \E i \in 1..Len(envOut.res.error.lines) :
                       envOut.res.error.lines[i] = k \o ": Required"
        /\ \A k \in KeySet(envIn.client) \cap EmptyVars(envIn) :
              (/\ ~HasBadClientName(envIn.client, envIn.clientPrefix)
               /\ InvalidVars(envIn.server, envIn) = {}
               /\ Get(envIn.client, k).kind \notin {"default", "optional"})
              => /\ envOut.res.error.kind = "client-env"
                 /\ \E i \in 1..Len(envOut.res.error.lines) :
                       envOut.res.error.lines[i] = k \o ": Required"

C8_Witness ==
    /\ envOut.done
    /\ envIn.emptyStringAsUndefined = "true"
    /\ EmptyVars(envIn) = {"DB", "PUBLIC_Y"}
    /\ Has(envIn.server, "DB") /\ Get(envIn.server, "DB").kind = "default"
    /\ envOut.res.ok
    /\ Get(envOut.res.server, "DB") = DefaultValue
    /\ Outcome(ProcessEnvConfig(Without(envIn, {"DB"}))) = Outcome(envOut.res)

Names(lines, k) == \E i \in 1..Len(lines) : StartsWith(lines[i], k \o ": ")

NamesExactly(lines, S) ==
    /\ \A k \in S : Names(lines, k)
    /\ \A i \in 1..Len(lines) : \E k \in S : StartsWith(lines[i], k \o ": ")

\* C9: the error raised for invalid server variables is tagged as the server
\* environment failure and names every invalid server variable, and only
\* those; with a valid server group the same holds of the client group.
C9_AggregateEnvErrors ==
    (envOut.done /\ ~HasBadClientName(envIn.client, envIn.clientPrefix)) =>
        LET badServer == InvalidVars(envIn.server, envIn)
            badClient == InvalidVars(envIn.client, envIn)
            err == envOut.res.error
        IN  /\ badServer # {} =>
                /\ err.kind = "server-env"
                /\ err.subject = ServerEnvTag
                /\ NamesExactly(err.lines, badServer)
            /\ (badServer = {} /\ badClient # {}) =>
                /\ err.kind = "client-env"
                /\ err.subject = ClientEnvTag
                /\ NamesExactly(err.lines, badClient)
            /\ (badServer = {} /\ badClient = {}) => envOut.res.ok

C9_Witness ==
    /\ envOut.done
    /\ envOut.res.error.kind = "server-env"
    /\ InvalidVars(envIn.server, envIn) = {"DB", "KEY"}
    /\ InvalidVars(envIn.client, envIn) # {}
    /\ Names(envOut.res.error.lines, "DB")
    /\ Names(envOut.res.error.lines, "KEY")

\* C10: the stableId handed to the resolver of field n of section s is
\* "s.n", in every pass, and two different (section, name) pairs never get
\* the same stableId.
C10_StableId ==
    /\ \A h \in handed :
         /\ h.section \in Sections
         /\ h.stableId = h.section \o "." \o h.name
    /\ \A g, h \in handed :
         (g.stableId = h.stableId) <=> (g.section = h.section /\ g.name = h.name)
    /\ \A i \in 1..Len(log) :
         log[i].ev = "resolve" => \E h \in handed : h.stableId = log[i].arg
    /\ (Resolved /\ Has(merged.full.server, "computed")) =>
         Get(output.value.server, "computed") = "server.computed"

C10_Witness ==
    /\ pass = 2
    /\ Resolved
    /\ { h.stableId : h \in handed } = {"server.computed", "server.a.id", "client.x"}
    /\ Get(output.value.server, "a.id") = "server.a.id"
    /\ Get(output.value.client, "x") = "client.x"

(***************************************************************************)
(* Failures of fields.                                                     *)
(***************************************************************************)
\* what the resolver of a field returns, or the static value of the field
ResolvedValue(field, s, name) ==
    IF IsFunction(field.value)
      THEN CallResolver(field.value, StableId(s, name), envResult[s]).value
      ELSE field.value.arg

\* the resolved value of the field called name of section s fails its rule
FailsRule(s, name) ==
    LET field == Get(merged.full[s], name)
    IN  ~ParseRule(field.validation, ResolvedValue(field, s, name)).ok

\* C11: a pass that returns a Resolved Config has validated every declared
\* field and the output holds every one of them; a pass in which the value
\* of a field fails its rule has failed and has returned nothing.
C11_AllOrNothing ==
    /\ output.kind = "resolved" =>
          /\ pc = "resolved"
          /\ error = NoError
          /\ \A s \in Sections : \A name \in KeySet(merged.full[s]) :
                ~FailsRule(s, name) /\ Has(output.value[s], name)
    /\ error.kind = "field" => pc = "failed" /\ output = NoOutput
    /\ pc = "failed" => output = NoOutput

\* a field fails its rule after another field of the pass was validated
C11_Witness ==
    /\ pc = "failed"
    /\ error.kind = "field"
    /\ serverResult # EmptyObj
    /\ output = NoOutput

\* sub occurs in str
Mentions(str, sub) ==
    \E i \in 1..(Len(str) - Len(sub) + 1) : SubSeq(str, i, i + Len(sub) - 1) = sub

\* the field processConfigObject was at when the pass failed
FailingField == ConfigObj[fIdx]

\* C12: the error of a pass that fails on a field, whether the value of the
\* field failed its rule or its resolver rejected, holds a message that
\* names the stableId of the field together with the underlying message.
C12_FailureNamesField ==
    (pc = "failed" /\ error.kind \in {"field", "resolver"}) =>
        LET id == StableId(section, FailingField.k)
            field == FailingField.v
            underlying ==
                IF error.kind = "resolver"
                  THEN CallResolver(field.value, id, SectionEnv).value
                  ELSE Joined(ParseRule(field.validation,
                                        ResolvedValue(field, section, FailingField.k)).issues)
        IN  \E i \in 1..Len(error.lines) :
                Mentions(error.lines[i], id) /\ Mentions(error.lines[i], underlying)

(***************************************************************************)
(* Order of environment validation and field resolution.                   *)
(***************************************************************************)
\* the environment of the pass passes the prefix check and both validations
EnvValid ==
    /\ ~HasBadClientName(merged.full.env.client, merged.full.env.clientPrefix)
    /\ InvalidVars(merged.full.env.server, merged.full.env) = {}
    /\ InvalidVars(merged.full.env.client, merged.full.env) = {}

\* C13: a resolver is invoked only after processEnvConfig has returned with
\* both groups validated; when the validation of the environment fails the
\* pass has failed with that error and no resolver was or is invoked.
C13_EnvBeforeResolvers ==
    /\ \A i \in 1..Len(log) :
          log[i].ev = "resolve" =>
              \E j \in 1..(i - 1) : log[j] = Ev("env", "none")
    /\ (pending \/ Logged("resolve")) =>
          envResult.ok /\ envResult.parsed /\ EnvValid
    /\ (Logged("env") /\ ~EnvValid) =>
          /\ pc = "failed"
          /\ error = envResult.error
          /\ error # NoError
          /\ ~pending
          /\ ~Logged("resolve")
          /\ handed = {} \/ pass > 1

\* a resolver has been invoked in a pass whose schema has server and client
\* variables
C13_Witness ==
    /\ Logged("resolve")
    /\ envResult.ok
    /\ merged.full.env.server # EmptyObj
    /\ merged.full.env.client # EmptyObj

(***************************************************************************)
(* The precondition of defineConfig.                                       *)
(***************************************************************************)
PreconditionMessage == "buildEnv() must be called before defineConfig()"

\* the texts by which the validation failures are recognised
ValidationTags ==
    { ServerEnvTag, ClientEnvTag, "Validation failed for",
      "does not start with the required prefix" }

\* C14: defineConfig on a builder without an envConfig fails with the
\* precondition error, whose message carries none of the texts of the
\* validation failures, before the root callback is evaluated, before any
\* build() is invoked and before any resolver runs; no other pass fails so.
C14_PreconditionFirst ==
    /\ (builder.envConfig.isNull /\ pc # "chain") =>
          /\ pc = "failed"
          /\ error = Err("precondition", PreconditionMessage, << >>)
          /\ log = << >>
          /\ started = 0
          /\ ~pending
          /\ output = NoOutput
    /\ error.kind = "precondition" =>
          /\ builder.envConfig.isNull
          /\ \A t \in ValidationTags : ~Mentions(error.subject, t)

\* plugins were registered, buildEnv was not called, defineConfig has failed
C14_Witness ==
    /\ pc = "failed"
    /\ error.kind = "precondition"
    /\ builder.plugins # << >>
    /\ chainLen >= 1

FieldNames(s) == KeySet(merged.full[s])

DeclaredEnv(s) == KeySet(merged.full.env[s])

RuntimeNames == DOMAIN merged.full.env.runtimeEnv

\* the value the rule of the declared variable n of group s gives for the
\* runtime environment, after the empty-string normalization
ValidatedEnvValue(s, n) ==
    ParseRule(Get(merged.full.env[s], n),
              ProcessEnvValue(EmptyStringAsUndefined(merged.full.env),
                              Lookup(merged.full.env.runtimeEnv, n))).value

\* C16: the keys of each section of a Resolved Config are the field names of
\* the section and the environment names declared for it; a declared name
\* holds its validated value; a name that is neither is absent, whether the
\* runtime environment has it or the other group declares it, and a field
\* holds its own value and not that of an undeclared variable of its name.
C16_ExactPartition ==
    Resolved =>
        \A s \in Sections :
            /\ KeySet(output.value[s]) = FieldNames(s) \cup DeclaredEnv(s)
            /\ \A n \in DeclaredEnv(s) :
                  Get(output.value[s], n) = ValidatedEnvValue(s, n)
            /\ \A n \in (RuntimeNames \cup DeclaredEnv("server")) \ DeclaredEnv(s) :
                  IF n \in FieldNames(s)
                    THEN Get(output.value[s], n)
                           = FieldValue(Get(merged.full[s], n), s, n)
                    ELSE ~Has(output.value[s], n)

\* a Resolved Config of a pass with fields, with variables declared for each
\* group and with a variable of the runtime environment that is not declared
C16_Witness ==
    /\ Resolved
    /\ rootConfig.server # EmptyObj
    /\ "X_BAD" \in RuntimeNames
    /\ ~Has(output.value.server, "X_BAD")
    /\ Has(output.value.server, "DB")
    /\ ~Has(output.value.client, "DB")
    /\ Has(output.value.client, "PUBLIC_X")
    /\ ~Has(output.value.server, "PUBLIC_X")

(***************************************************************************)
(* The build-mode marker.                                                  *)
(***************************************************************************)
\* the stableIds of the fields of the merged configuration, in the order
\* processConfigObject takes them
AllStableIds ==
    [i \in 1..Len(merged.full.server) |-> StableId("server", merged.full.server[i].k)]
      \o [i \in 1..Len(merged.full.client) |-> StableId("client", merged.full.client[i].k)]

Validated == [i \in 1..Len(Events({"validate"})) |-> Events({"validate"})[i].arg]

\* C17: with the marker 'true', defineConfig returns the configuration it
\* was given as it is, and nothing is checked, read, resolved or validated;
\* with the marker absent or of another value nothing raw is returned, and a
\* pass that returns has validated the environment and every field.
C17_BuildModeMarker ==
    /\ (buildMode = "true" /\ Merged /\ pc # "define") =>
          /\ pc = "resolved"
          /\ output = [kind |-> "raw", value |-> merged.full]
          /\ error = NoError
          /\ envResult = NoEnvResult
          /\ Events({"env", "resolve", "validate"}) = << >>
          /\ ~pending
          /\ serverResult = EmptyObj /\ clientResult = EmptyObj
    /\ buildMode # "true" =>
          /\ output.kind # "raw"
          /\ (Merged /\ pc # "define") => Logged("env")
          /\ pc = "resolved" =>
                /\ output.kind = "resolved"
                /\ envResult.ok /\ envResult.parsed
                /\ Validated = AllStableIds

\* with the marker 'true', a configuration whose client schema breaks the
\* prefix rule and which has a resolver is returned raw
C17_Witness ==
    /\ buildMode = "true"
    /\ pc = "resolved"
    /\ output.kind = "raw"
    /\ HasBadClientName(merged.full.env.client, merged.full.env.clientPrefix)
    /\ \E i \in 1..Len(output.value.server) : IsFunction(output.value.server[i].v.value)
    /\ builder.plugins # << >>

(***************************************************************************)
(* The watch mode.                                                         *)
(***************************************************************************)
\* number of buildConfig runs in flight after the first n events of devLog
RunningAfter(n) == DevCount(BuildStartEvents, n) - DevCount(BuildSettleEvents, n)

\* C18: never are two buildConfig runs in flight, and a change that comes
\* while a run is in flight, be it the initial build or a rebuild, starts
\* no run.
C18_OneBuildInFlight ==
    /\ running <= 1
    /\ devPc # "closed" => running = RunningAfter(Len(devLog))
    /\ \A i \in 1..Len(devLog) :
          /\ RunningAfter(i) <= 1
          /\ (devLog[i] \in ChangeEvents /\ RunningAfter(i - 1) > 0) =>
                devLog[i] # "change-rebuild"

\* a change came during the initial build, another during a rebuild, and
\* the rebuild is still in flight
C18_Witness ==
    /\ running = 1
    /\ isBuilding
    /\ \E i, j \in 1..Len(devLog) :
          devLog[i] = "change-unwatched" /\ devLog[j] = "change-skipped"

(***************************************************************************)
(* The env handed to the resolvers.                                        *)
(***************************************************************************)
\* the declared variables of group s with their validated values
ValidatedEnv(s) ==
    [i \in 1..Len(merged.full.env[s]) |->
        Entry(merged.full.env[s][i].k, ValidatedEnvValue(s, merged.full.env[s][i].k))]

\* C19: every resolver of a server field is invoked with the validated
\* server mapping and every resolver of a client field with the validated
\* client mapping: the declared names of the group with the values their
\* rules give after the normalization, nothing of the other group and
\* nothing else of the runtime environment.
C19_ResolverEnv ==
    \A i \in 1..Len(log) :
        log[i].ev = "resolve" =>
            /\ StartsWith(log[i].arg, log[i].section \o ".")
            /\ log[i].env = ValidatedEnv(log[i].section)
            /\ KeySet(log[i].env) = DeclaredEnv(log[i].section)
            /\ log[i].section = "client" =>
                  \A n \in DeclaredEnv("server") \ DeclaredEnv("client") :
                      ~Has(log[i].env, n)

\* a client resolver was handed the default of a variable the runtime
\* environment does not have, in a pass with server variables
C19_Witness ==
    /\ DeclaredEnv("server") # {}
    /\ "PUBLIC_X" \notin RuntimeNames
    /\ \E i \in 1..Len(log) :
          /\ log[i].ev = "resolve"
          /\ log[i].section = "client"
          /\ log[i].env = << Entry("PUBLIC_X", DefaultValue) >>

(***************************************************************************)
(* The plugins of a builder chain.                                         *)
(***************************************************************************)
IsPrefix(a, b) == Len(a) <= Len(b) /\ SubSeq(b, 1, Len(a)) = a

\* addPlugins or buildEnv is called on the builder of the chain
ChainStep == pc = "chain" /\ chainLen' = chainLen + 1

\* the plugins whose build() the pass has invoked, in order
Built == [i \in 1..Len(BuildStarts) |-> BuildStarts[i].arg]

\* C20: a step of the chain keeps the plugins the chain has added so far, in
\* order, before those it adds, and the pass of defineConfig has built, when
\* it merges, the plugins of the builder in that order: every plugin passed
\* to every addPlugins call of the chain.
C20_AccumulatesPlugins ==
    [][ /\ ChainStep => IsPrefix(builder.plugins, builder'.plugins)
        /\ Merged' => Built' = builder'.plugins ]_vars

(***************************************************************************)
(* Termination of a pass.                                                  *)
(***************************************************************************)
Ended == pc \in {"resolved", "failed"}

\* C21: when every build() and every resolver that is invoked settles, a
\* pass that defineConfig has started ends, resolved with an output and no
\* error or failed with an error and no output, and stays as it ended;
\* while a resolver has not settled the pass has not ended and nothing of
\* it moves: no field is validated, no other resolver is invoked.
C21_Termination ==
    /\ (pc # "chain") ~> Ended
    /\ [][Ended => UNCHANGED << pc, output, error >>]_vars
    /\ [](pc = "resolved" => (error = NoError /\ output # NoOutput))
    /\ [](pc = "failed" => (error # NoError /\ output = NoOutput))
    /\ [](pending => (pc = "fields" /\ output = NoOutput /\ error = NoError))
    /\ [][(pending /\ pending') =>
             UNCHANGED << pc, section, fIdx, serverResult, clientResult, output,
                          error, log, handed >>]_vars

\* a pass with plugin builds and resolvers has ended with a Resolved Config
C21_Witness ==
    /\ Resolved
    /\ Len(BuildStarts) >= 2
    /\ Cardinality({ i \in 1..Len(log) : log[i].ev = "resolve" }) >= 2

(***************************************************************************)
(* The failing field that is reported.                                     *)
(***************************************************************************)
\* the fields of the merged configuration in the order of resolution
Order ==
    [i \in 1..Len(merged.full.server) |->
        [section |-> "server", name |-> merged.full.server[i].k]]
      \o [i \in 1..Len(merged.full.client) |->
        [section |-> "client", name |-> merged.full.client[i].k]]

\* the resolver of the field rejects
Rejects(s, name) ==
    LET field == Get(merged.full[s], name)
    IN  /\ IsFunction(field.value)
        /\ CallResolver(field.value, StableId(s, name), envResult[s]).rejected

\* the positions of the fields that would fail on their own
FailingPositions ==
    { i \in 1..Len(Order) :
        Rejects(Order[i].section, Order[i].name)
          \/ FailsRule(Order[i].section, Order[i].name) }

FirstFailing == CHOOSE i \in FailingPositions : \A j \in FailingPositions : i <= j

\* the position processConfigObject is at
Position == IF section = "server" THEN fIdx ELSE Len(merged.full.server) + fIdx

IdAt(i) == StableId(Order[i].section, Order[i].name)

\* C22: a pass with a valid environment in which fields would fail ends
\* failed at the first of them in the order of resolution, server fields in
\* key order and then client fields in key order; a validation error holds
\* one message, which names that field and no later failing field, and no
\* field after it was validated.
C22_FirstFailureWins ==
    /\ (envResult.ok /\ Ended /\ FailingPositions # {}) =>
          /\ pc = "failed"
          /\ error.kind \in {"field", "resolver"}
          /\ Position = FirstFailing
          /\ Len(Validated) <= FirstFailing
    /\ error.kind = "field" =>
          /\ pc = "failed"
          /\ Position \in FailingPositions
          /\ Position = FirstFailing
          /\ error.subject = IdAt(FirstFailing)
          /\ Len(error.lines) = 1
          /\ Mentions(error.lines[1], IdAt(FirstFailing))
          /\ \A j \in FailingPositions \ {FirstFailing} :
                ~Mentions(error.lines[1], IdAt(j))

\* a server field and a client field would fail their rules; the pass has
\* failed with the error of the server field
C22_Witness ==
    /\ pc = "failed"
    /\ error.kind = "field"
    /\ section = "server"
    /\ \E j \in FailingPositions :
          Order[j].section = "client" /\ FailsRule("client", Order[j].name)

(***************************************************************************)
(* Invalid variables in both groups.                                       *)
(***************************************************************************)
\* C23: when both groups hold invalid variables, processEnvConfig fails with
\* the server error alone: every invalid server variable is listed and no
\* line is about a variable of the client group; the client error is only
\* raised when no server variable is invalid.
C23_ServerMasksClient ==
    (envOut.done /\ ~HasBadClientName(envIn.client, envIn.clientPrefix)) =>
        LET badServer == InvalidVars(envIn.server, envIn)
            badClient == InvalidVars(envIn.client, envIn)
            err == envOut.res.error
        IN  /\ (badServer # {} /\ badClient # {}) =>
                /\ err.kind = "server-env"
                /\ err.subject = ServerEnvTag
                /\ \A k \in badServer : Names(err.lines, k)
                /\ \A i \in 1..Len(err.lines) :
                      /\ \E k \in KeySet(envIn.server) : StartsWith(err.lines[i], k \o ": ")
                      /\ \A k \in KeySet(envIn.client) \ KeySet(envIn.server) :
                            ~Mentions(err.lines[i], k)
            /\ err.kind = "client-env" => (badServer = {} /\ badClient # {})

\* one server variable and two client variables are invalid; the error is
\* the server error
C23_Witness ==
    /\ envOut.done
    /\ envOut.res.error.kind = "server-env"
    /\ Cardinality(InvalidVars(envIn.server, envIn)) = 1
    /\ Cardinality(InvalidVars(envIn.client, envIn)) = 2
    /\ Len(envOut.res.error.lines) = 1

(***************************************************************************)
(* A field that bears the name of a declared variable.                     *)
(***************************************************************************)
\* the names that are a field of section s and a declared variable of it
Shadowed(s) == FieldNames(s) \cap DeclaredEnv(s)

ResolveLogged(id) == \E i \in 1..Len(log) : log[i].ev = "resolve" /\ log[i].arg = id

ValidateLogged(id) == \E i \in 1..Len(log) : log[i] = Ev("validate", id)

\* C24: in a Resolved Config a name that is both a field and a declared
\* variable of the section holds the validated value of the variable; the
\* resolver of the field was invoked all the same and its value was
\* validated, and a pass in which that value fails its rule has failed.
C24_EnvValueWins ==
    /\ Resolved =>
          \A s \in Sections : \A n \in Shadowed(s) :
              LET field == Get(merged.full[s], n)
              IN  /\ Get(output.value[s], n) = ValidatedEnvValue(s, n)
                  /\ Get(output.value[s], n) = EnvGet(envResult[s], n)
                  /\ IsFunction(field.value) => ResolveLogged(StableId(s, n))
                  /\ ValidateLogged(StableId(s, n))
                  /\ ~FailsRule(s, n)
    /\ (Ended /\ envResult.ok
           /\ \E s \in Sections : \E n \in Shadowed(s) : FailsRule(s, n)) =>
          pc = "failed" /\ error.kind \in {"field", "resolver"}

\* the resolver of the server field KEY returned its stableId, and the
\* output holds the value of the variable KEY
C24_Witness ==
    /\ Resolved
    /\ "KEY" \in Shadowed("server")
    /\ IsFunction(Get(merged.full.server, "KEY").value)
    /\ ResolveLogged("server.KEY")
    /\ Get(serverResult, "KEY") # "server.KEY"
    /\ Get(output.value.server, "KEY") = Lookup(merged.full.env.runtimeEnv, "KEY")

(***************************************************************************)
(* The environment rules of the plugins.                                   *)
(***************************************************************************)
\* the value the effective rule of n gives for the runtime environment of
\* the root builder
RootValidated(s, n) ==
    ParseRule(Get(merged.full.env[s], n),
              ProcessEnvValue(builder.envConfig.emptyStringAsUndefined = "true",
                              Lookup(builder.envConfig.runtimeEnv, n))).value

\* C25: the fragment of a plugin is the same whatever clientPrefix,
\* runtimeEnv and emptyStringAsUndefined the plugin gave to
\* pluginBuilder.buildEnv, and its env holds the server and the client rules
\* only; the merged configuration has the prefix, the runtime environment
\* and the flag of the root builder; the variables the plugins declare are
\* validated against the runtime environment of the root; a client name of
\* a plugin without the prefix of the root fails the pass with the prefix
\* error.
C25_RootGovernsPluginRules ==
    /\ \A i \in 1..Len(pluginConfigs) :
          /\ DOMAIN pluginConfigs[i].env = {"server", "client"}
          /\ \A setting \in PluginEnvSettings :
                PluginBuild(builder.plugins[i], setting)
                  = [rejected |-> FALSE, config |-> pluginConfigs[i]]
    /\ Merged =>
          /\ merged.full.env.clientPrefix = builder.envConfig.clientPrefix
          /\ merged.full.env.runtimeEnv = builder.envConfig.runtimeEnv
          /\ merged.full.env.emptyStringAsUndefined
                = builder.envConfig.emptyStringAsUndefined
    /\ envResult.ok =>
          \A s \in Sections : \A n \in KeySet(merged.plugin.env[s]) :
              EnvGet(envResult[s], n) = RootValidated(s, n)
    /\ (Logged("env")
           /\ \E n \in KeySet(merged.plugin.env.client) :
                 ~StartsWith(n, builder.envConfig.clientPrefix)) =>
          /\ pc = "failed"
          /\ error.kind = "prefix"
          /\ ~StartsWith(error.subject, builder.envConfig.clientPrefix)
          /\ output = NoOutput

\* the root schema keeps the prefix, a plugin declares NEXT_PUBLIC_Y, and
\* the pass has failed with the prefix error about that name
C25_Witness ==
    /\ pc = "failed"
    /\ error.kind = "prefix"
    /\ error.subject = "NEXT_PUBLIC_Y"
    /\ Len(pluginConfigs) = 2
    /\ ~HasBadClientName(builder.clientEnvSchemas, builder.envConfig.clientPrefix)

(***************************************************************************)
(* The exported configBuilder across builder chains.                       *)
(***************************************************************************)
\* the exported object has no environment and no plugins
Pristine(b) ==
    /\ b.envConfig.isNull
    /\ b.serverEnvSchemas = EmptyObj
    /\ b.clientEnvSchemas = EmptyObj
    /\ b.plugins = << >>

\* C26: a builder step returns a builder other than the exported one and
\* leaves the exported configBuilder as it was; whatever chains were built,
\* configBuilder has no environment and no plugins, and defineConfig called
\* on it fails the precondition.
C26_ReceiverUnchanged ==
    [][ /\ ChainStep => (~builder'.exported /\ singleton' = singleton)
        /\ Pristine(singleton')
        /\ builder'.exported => builder' = singleton'
        /\ (builder'.exported /\ pc' # "chain") =>
              /\ pc' = "failed"
              /\ error' = Err("precondition", PreconditionMessage, << >>)
      ]_vars

\* two builder steps were taken, the caller went back to configBuilder, and
\* defineConfig on it has failed the precondition
C26_Witness ==
    /\ chainLen >= 2
    /\ builder.exported
    /\ Pristine(singleton)
    /\ pc = "failed"
    /\ error.kind = "precondition"

(***************************************************************************)
(* The order of the resolvers within a pass.                               *)
(***************************************************************************)
\* the positions of the log at which a resolver is invoked
ResolvePositions == { i \in 1..Len(log) : log[i].ev = "resolve" }

\* the position in the order of resolution of the field with this stableId
PositionOf(id) == CHOOSE p \in 1..Len(Order) : IdAt(p) = id

\* the value of the field was validated before position j of the log
ValidatedBefore(id, j) == \E k \in 1..(j - 1) : log[k] = Ev("validate", id)

\* C27: the fields are resolved one after the other: a resolver is invoked
\* only after the value of the resolver invoked before it was validated and
\* after every field before it in the order, server fields first, was
\* validated; a resolver that is pending is the one invoked last; after a
\* field has failed no field after it is resolved or validated.
C27_SequentialResolution ==
    Merged =>
      /\ \A i \in ResolvePositions : \A j \in ResolvePositions :
            i < j => \E k \in (i + 1)..(j - 1) : log[k] = Ev("validate", log[i].arg)
      /\ \A j \in ResolvePositions :
            /\ \A q \in 1..(PositionOf(log[j].arg) - 1) : ValidatedBefore(IdAt(q), j)
            /\ log[j].section = "client" =>
                  \A q \in 1..Len(merged.full.server) :
                      ValidatedBefore(StableId("server", merged.full.server[q].k), j)
      /\ pending =>
            /\ log[Len(log)].ev = "resolve"
            /\ log[Len(log)].arg = IdAt(Position)
      /\ (pc = "failed" /\ error.kind \in {"field", "resolver"}) =>
            /\ \A q \in (Position + 1)..Len(Order) :
                  ~ResolveLogged(IdAt(q)) /\ ~ValidateLogged(IdAt(q))
            /\ section = "server" =>
                  \A j \in ResolvePositions : log[j].section = "server"

\* a server resolver and a client resolver were invoked and the pass has
\* returned
C27_Witness ==
    /\ pc = "resolved"
    /\ \E i \in ResolvePositions : \E j \in ResolvePositions :
          /\ i < j
          /\ log[i].section = "server"
          /\ log[j].section = "client"
    /\ Len(merged.full.server) >= 2

(***************************************************************************)
(* The watcher after a build has settled.                                  *)
(***************************************************************************)
\* the step appends one event to devLog
DevStep == Len(devLog') = Len(devLog) + 1

LastDev == devLog[Len(devLog)]

SkippedSinceBuild ==
    \E i \in 1..Len(devLog) :
        /\ devLog[i] = "change-skipped"
        /\ \A j \in (i + 1)..Len(devLog) : devLog[j] \notin BuildStartEvents

\* no build is in flight and the source has changed since the latest build
\* was started
Stale == devPc = "watching" /\ running = 0 /\ SkippedSinceBuild

\* C29: a change event that arrives while a rebuild is in flight is skipped
\* and changes nothing; a build is started by the call of devConfig or by a
\* change event that is not skipped and by nothing else, so when the build
\* in flight settles no build is started for the skipped change, and the
\* artifacts stay behind the source until another change event arrives.
C29_DroppedNotQueued ==
    [][ DevStep =>
          /\ (devPc = "watching" /\ isBuilding /\ LastDev' \in ChangeEvents) =>
                /\ LastDev' = "change-skipped"
                /\ UNCHANGED << isBuilding, running >>
          /\ running' > running =>
                /\ LastDev' \in BuildStartEvents
                /\ running = 0
          /\ (SkippedSinceBuild /\ LastDev' \in BuildSettleEvents) => Stale'
          /\ (Stale /\ ~Stale') => LastDev' \in {"change-rebuild", "shutdown"}
      ]_vars

\* a change was skipped during a rebuild, the rebuild has settled, and no
\* build is in flight
C29_Witness ==
    /\ Stale
    /\ ~isBuilding
    /\ LastDev \in {"rebuild-ok", "rebuild-failed"}
    /\ devLog[Len(devLog) - 1] = "change-skipped"

(***************************************************************************)
(* The two loads of one buildConfig run.                                   *)
(***************************************************************************)
\* C30: in one buildConfig run the marker is absent during the whole first
\* load, 'true' during the whole second load and absent again once
\* extractTypeInfo has returned or thrown; no resolver is invoked twice in
\* the first load and none is invoked in the second, while the build() of
\* every registered plugin is invoked in the first load and again in the
\* second.
C30_ResolversOncePerBuild ==
    /\ buildPc = "first" => (buildMode = Undefined /\ pass = 1)
    /\ buildPc = "second" => (buildMode = "true" /\ pass = 2)
    /\ (buildPc \in {"written", "failed"} /\ (pass = 2 \/ pc = "failed")) =>
          buildMode = Undefined
    /\ buildPc \in {"first", "second", "written"} =>
          /\ \A i \in ResolvePositions : \A j \in ResolvePositions :
                i # j => log[i].arg # log[j].arg
          /\ pass = 2 =>
                /\ ResolvePositions = {}
                /\ ~Logged("env") /\ ~Logged("validate")
                /\ prevOutcome.output.kind = "resolved"
          /\ pc = "resolved" =>
                /\ Built = builder.plugins
                /\ output.kind = IF pass = 2 THEN "raw" ELSE "resolved"
    /\ buildPc = "written" => pass = 2

\* the first load invoked resolvers and built a plugin, the second load
\* built the plugin again and returned the raw configuration, and
\* extractTypeInfo has returned
C30_Witness ==
    /\ buildPc = "written"
    /\ pass = 2
    /\ handed # {}
    /\ Len(BuildStarts) >= 1
    /\ prevOutcome.output.kind = "resolved"
    /\ output.kind = "raw"
    /\ buildMode = Undefined

====
